---- MODULE Spec2Model ----
(***************************************************************************)
(* Model of the Turo CSV acquisition engine (src/download_turo_csv.py).    *)
(*                                                                         *)
(* One run of main() is a sequential process whose position is pc.  The    *)
(* web site is the environment: what a navigation lands on, what a scope   *)
(* (top-level page or nested frame) contains, whether a click raises a     *)
(* download and when, which responses arrive.  Each of these is drawn with *)
(* \E at the moment the code observes it.                                  *)
(***************************************************************************)
EXTENDS Integers, Sequences, FiniteSets, TLC

\* ------------------------------------------------------------------ bounds
MaxHits == 3          \* marketing-keyword links a landed page may show
MaxFrames == 2        \* nested frames (besides the main frame) of a page
MaxStamp == 1         \* UTC seconds a capture can be stamped with: 0..MaxStamp
MaxHeader == 2        \* header cells of a scraped table
MaxRows == 2          \* data rows of a scraped table
MaxCells == 3         \* cells of one data row
MaxTrips == 2         \* rows of the frame the transform step reads
MaxLoads == 2         \* times load is run on the same database
TicksPerDay == 2      \* clock ticks in a day (the clock's resolution)
NowDay == 40          \* the day the transform step runs on
MonthLen == 30        \* days in a month bucket

\* ------------------------------------------------------- program constants
NumTargets == 7           \* len(HOST_TARGETS) + 1 (BUSINESS_EARNINGS_URL)
MarketingThreshold == 3   \* marketing_hits >= 3
NumBizLocs == 5           \* locators probed on the business-earnings page
ThirtyDays == 30          \* (now - trip_start).dt.days > 30

VARIABLES
    storage,     \* AUTH_STORAGE_STATE: "unset", "missing" (named, no file), "present"
    startUrl,    \* TURO_START_URL: "unset" or "set"
    etl,         \* the transform step: its clock, its input frame, its two outputs
    db,          \* turo.duckdb: the two fact tables and the two rollup tables
    mode,        \* "none" before the session is resolved, then "reusable" / "persistent"
    browser,     \* "none", "open", "closed"
    sniffing,    \* TRUE once page.on("response", _maybe_capture_csv) is registered
    buf,         \* csv_bytes["buf"]: "None", "" (empty body) or a body
    pc,          \* position of main()
    ti,          \* index of the target go_to_host_finance is at (0 outside the loop)
    page,        \* what the single page currently shows
    exc,         \* exception in flight ("none" when there is none)
    scope,       \* the scope (top-level page or frame) the cascade is at
    res,         \* what the last activation attempt did
    fi,          \* index of the frame the frame loop is at
    nframes,     \* number of nested frames of the current page
    li,          \* index of the business-earnings locator being tried
    table,       \* the table element the transcoder last read
    files,       \* CSV_DIR: file name -> content ("absent" when there is no such file)
    caps,        \* per run sharing CSV_DIR: the capture it wrote ("none" before)
    debug,       \* OUT_DIR: stems of the diagnostics written
    outcome,     \* "running", "ok", or the reason the run failed
    hist         \* record of observations about the run (history only)

vars == <<storage, startUrl, etl, db, mode, browser, sniffing, buf, pc, ti, page, exc, scope, res,
          fi, nframes, li, table, files, caps, debug, outcome, hist>>

\* ------------------------------------------------------------------- pages
\* URL of the page, by the substrings the code looks for.
UrlKinds == {"login", "auth", "signin", "plain"}

BlankPage == [url |-> "blank", landmark |-> FALSE, mhits |-> 0,
              fintext |-> FALSE, site |-> "blank", loaded |-> FALSE]

\* a page a navigation can land on:
\*   landmark: a tab or link named Transactions/Earnings/Payouts/Trips/Export/CSV
\*   mhits:    visible links whose text matches the marketing keywords
\*   fintext:  text matching (Transactions|Earnings|Payout|Export|CSV|Trip ID) visible
\*             (counts around the threshold of line 133)
\*   loaded:   page.goto returned (FALSE: it raised, wherever the page got to)
LandedPages(site) ==
    [url : UrlKinds, landmark : BOOLEAN, mhits : (MarketingThreshold - 1)..MaxHits,
     fintext : BOOLEAN, site : {site}, loaded : BOOLEAN]

\* line 164: "login" in cur or "auth" in cur
\* (a check that looks for "login" alone)
IsLoginUrlNoAuth(cur) == cur = "login"
IsLoginRedirect(cur) == cur \in {"login", "auth"}

\* line 636: "login" in cur or "auth" in cur or "signin" in cur
IsLoginLikeUrl(cur) == cur \in {"login", "auth", "signin"}

\* (a threshold that asks for more than 3 marketing links)
looks_like_marketing_shell_strict(p) ==
    IF p.landmark THEN FALSE ELSE p.mhits > MarketingThreshold

\* looks_like_marketing_shell: no host tab/link found, and >= 3 marketing links
looks_like_marketing_shell(p) ==
    IF p.landmark THEN FALSE ELSE p.mhits >= MarketingThreshold

\* ------------------------------------------------------------------ scopes
\* What a scope (top-level document or nested frame) holds, as far as
\* _find_and_click_csv can tell:
\*   named:  a control whose accessible name or text matches \bCSV\b
\*           ("hidden": in the DOM, not visible)
\*   attr:   a visible control matched by no name synonym, only by one of the
\*           attribute/CSS selectors
\*   export: a button named Export that opens a menu ("late": it becomes
\*           visible only after the direct pass has run)
\*   menu:   the CSV entry the opened Export menu shows, by how it renders
\*   kebab:  an icon-only overflow button; kmenu: what its menu leads to
\*   dl:     the download the site raises when a CSV control is activated:
\*           none, fired synchronously with the click, or fired later
DlKinds == {"none", "sync", "late"}
AttrKinds == {"testid", "aria", "href_end", "href_query"}

Scopes ==
    [named : {"none", "hidden", "ok"},
     attr : {"none"} \cup AttrKinds,
     export : {"none", "ok", "late"},
     menu : {"none", "menuitem", "text"},
     kebab : {"none", "ok"},
     kmenu : {"none", "export_csv", "csv"},
     dl : DlKinds]

EmptyScope == [named |-> "none", attr |-> "none", export |-> "none",
               menu |-> "none", kebab |-> "none", kmenu |-> "none", dl |-> "none"]

\* _candidate_locators, CSS part (lines 258-278): the selectors as declared.
DeclaredCss ==
    <<"testid", "testid", "testid", "qa", "aria", "aria", "btn_text", "btn_text",
      "a_text", "a_text", "a_download", "href_end", "href_query">>

\* The lambdas close over the loop variable `sel` (lines 270, 278), which is
\* read when the locator is made, after both loops have ended: every CSS
\* locator probes the selector declared last.
ProbedCss(i) == DeclaredCss[Len(DeclaredCss)]


\* -------------------------------------------------- control discovery cascade
\* Each strategy yields whether it activated a control and the clicks it made.

\* Direct pass (lines 286-300): the locators in declared order, names first
\* (\bCSV\b ... \bExport\b ...), then the CSS locators; the first visible
\* element is clicked and the function returns.
DirectStrategy(c) ==
    IF c.named = "ok"
    THEN [activated |-> TRUE, clicks |-> <<"named">>]
    ELSE IF c.export = "ok"
    THEN [activated |-> TRUE, clicks |-> <<"export_button">>]
    ELSE IF \E i \in 1..Len(DeclaredCss) : ProbedCss(i) = c.attr
    THEN [activated |-> TRUE, clicks |-> <<"attr">>]
    ELSE [activated |-> FALSE, clicks |-> <<>>]

\* Export-menu path (lines 302-320): click the Export button, then a CSV
\* menu item, or failing that any text CSV.
ExportMenuStrategy(c) ==
    IF c.export = "none"
    THEN [activated |-> FALSE, clicks |-> <<>>]
    ELSE IF c.menu = "menuitem"
    THEN [activated |-> TRUE, clicks |-> <<"export_button", "csv_menuitem">>]
    ELSE IF c.menu = "text"
    THEN [activated |-> TRUE, clicks |-> <<"export_button", "csv_text">>]
    ELSE [activated |-> FALSE, clicks |-> <<"export_button">>]

\* Kebab path (lines 322-345): click the overflow button, then Export/Download
\* menu item and a CSV text one level deeper, or failing that any text CSV.
KebabStrategy(c) ==
    IF c.kebab = "none"
    THEN [activated |-> FALSE, clicks |-> <<>>]
    ELSE IF c.kmenu = "export_csv"
    THEN [activated |-> TRUE, clicks |-> <<"kebab", "export_menuitem", "csv_text">>]
    ELSE IF c.kmenu = "csv"
    THEN [activated |-> TRUE, clicks |-> <<"kebab", "csv_text">>]
    ELSE [activated |-> FALSE, clicks |-> <<"kebab">>]

\* The download the site raises for a sequence of clicks: only a click on a
\* CSV control raises one; opening a menu does not.
RaisedBy(c, clicks) ==
    IF clicks # <<>> /\ clicks[Len(clicks)] \in {"named", "attr", "csv_menuitem", "csv_text"}
    THEN c.dl
    ELSE "none"

NoResult == [activated |-> FALSE, calls |-> <<>>, clicks |-> <<>>, dl |-> "none"]

\* a cascade that tries the overflow path before the direct pass
find_and_click_csv_kebab_first(c) ==
    LET k == KebabStrategy(c)
        d == DirectStrategy(c)
    IN  IF k.activated
        THEN [activated |-> TRUE, calls |-> <<"kebab">>, clicks |-> k.clicks,
              dl |-> RaisedBy(c, k.clicks)]
        ELSE [activated |-> d.activated, calls |-> <<"kebab", "direct">>,
              clicks |-> k.clicks \o d.clicks, dl |-> RaisedBy(c, d.clicks)]

\* _find_and_click_csv (lines 283-347)
find_and_click_csv(c) ==
    LET d == DirectStrategy(c)
        e == ExportMenuStrategy(c)
        k == KebabStrategy(c)
    IN  IF d.activated
        THEN [activated |-> TRUE, calls |-> <<"direct">>, clicks |-> d.clicks,
              dl |-> RaisedBy(c, d.clicks)]
        ELSE IF e.activated
        THEN [activated |-> TRUE, calls |-> <<"direct", "export_menu">>,
              clicks |-> e.clicks, dl |-> RaisedBy(c, e.clicks)]
        ELSE IF k.activated
        THEN [activated |-> TRUE, calls |-> <<"direct", "export_menu", "kebab">>,
              clicks |-> e.clicks \o k.clicks, dl |-> RaisedBy(c, k.clicks)]
        ELSE [activated |-> FALSE, calls |-> <<"direct", "export_menu", "kebab">>,
              clicks |-> e.clicks \o k.clicks, dl |-> "none"]

\* the scopes the run is explored with: at most one family of controls each,
\* and a download only where the cascade gets to click a CSV control
RunScopes ==
    {c \in Scopes :
        /\ Cardinality({f \in {"named", "attr", "export", "kebab"} : c[f] # "none"}) <= 1
        /\ (c.export # "late" => c.menu = "none")
        /\ (c.kebab = "none" => c.kmenu = "none")
        /\ (c.dl # "none" => \E d \in DlKinds \ {"none"} :
                                RaisedBy(c, find_and_click_csv(c).clicks) = d)}

\* -------------------------------------------------------------- capture binder
\* Whether the download-interception wait is armed when the activating click
\* is made: lines 477-479 and 494-496 call _find_and_click_csv (which clicks)
\* and only then enter page.expect_download; lines 525-526 click inside it.
HookArmedAtClick(path) == path = "business"

\* Whether page.expect_download sees the download within its 30 s window.
Caught(path, dl) ==
    \/ dl = "late"
    \/ dl = "sync" /\ HookArmedAtClick(path)

\* ------------------------------------------------------------ export directory
Sources == {"primary", "sniffed", "scraped"}
Stamps == 0..MaxStamp

\* turo_earnings_<stamp>.csv, turo_earnings_sniffed_<stamp>.csv,
\* turo_earnings_scraped_<stamp>.csv (lines 482, 548, 446)
FileName(src, stamp) ==
    <<CASE src = "primary" -> "turo_earnings_"
        [] src = "sniffed" -> "turo_earnings_sniffed_"
        [] src = "scraped" -> "turo_earnings_scraped_", stamp>>

FileNames == {FileName(s, t) : s \in Sources, t \in Stamps}

Absent == [exists |-> FALSE, data |-> <<>>]
File(data) == [exists |-> TRUE, data |-> data]
\* a byte stream, as the one-cell table it reads back as
Bytes(b) == <<<<b>>>>

EmptyDir == [n \in FileNames |-> Absent]

\* download.save_as / open(target, "wb") / open(out_path, "w"): the file is
\* created, or replaced when the name exists.
WriteFile(dir, src, stamp, data) ==
    [dir EXCEPT ![FileName(src, stamp)] = File(data)]
\* ------------------------------------------------------------ table transcoder
\* A table element is its rows in document order, each row its cells in
\* order, each cell its tag (th or td) and its text.
NoTable == [visible |-> FALSE, rows |-> <<>>]

RECURSIVE Flatten(_)
Flatten(ss) == IF ss = <<>> THEN <<>> ELSE Head(ss) \o Flatten(Tail(ss))

RECURSIVE MaxLen(_)
MaxLen(ss) ==
    IF ss = <<>> THEN 0
    ELSE LET m == MaxLen(Tail(ss))
         IN  IF Len(Head(ss)) > m THEN Len(Head(ss)) ELSE m

IsTh(cell) == cell.tag = "th"
Texts(cells) == [i \in 1..Len(cells) |-> cells[i].text]

\* line 416: every <th> of the table, in document order
HeaderCells(t) == Texts(Flatten([i \in 1..Len(t.rows) |-> SelectSeq(t.rows[i], IsTh)]))

\* lines 421-428: every <tr>, its <td> and <th> cells; rows whose cells are
\* all empty are dropped
AnyText(cells) == \E i \in 1..Len(cells) : cells[i] # ""
RowCells(t) == SelectSeq([i \in 1..Len(t.rows) |-> Texts(t.rows[i])], AnyText)

\* lines 437-443: pad with "" or truncate to width
NormalizeRow(r, width) ==
    [i \in 1..width |-> IF i <= Len(r) THEN r[i] ELSE ""]

\* _extract_table_to_csv (lines 393-458), for the first visible table
\* candidate: the rows written to the file (header line first), or <<>> when
\* the function returns None.
extract_table_to_csv(t) ==
    IF ~t.visible THEN <<>>
    ELSE
    LET found == HeaderCells(t)
        rows == RowCells(t)
        hdr == IF found = <<>> /\ rows # <<>>
               THEN [i \in 1..MaxLen(rows) |-> "col_" \o ToString(i)]
               ELSE found
        width == IF hdr # <<>> THEN Len(hdr) ELSE 0
    IN  IF width = 0 \/ rows = <<>>
        THEN <<>>
        ELSE <<hdr>> \o [i \in 1..Len(rows) |-> NormalizeRow(rows[i], width)]
\* ------------------------------------------- transform and load (the ETL step)
\* src/etl_turo_earnings.py.  Times are clock ticks; NaT is a missing or
\* unparseable timestamp.
NaT == -1
NowTick == NowDay * TicksPerDay

\* Timedelta.days: whole days, rounded down
Days(delta) == delta \div TicksPerDay

\* dt.to_period("M"): the month a timestamp falls in
MonthOf(t) == (t \div TicksPerDay) \div MonthLen

\* lines 76-78: trip_end_raw, or now where it is missing, the start is known
\* and (now - trip_start).dt.days > 30
trip_end_effective(t, now) ==
    IF t.end # NaT THEN t.end
    ELSE IF t.start # NaT /\ Days(now - t.start) > ThirtyDays THEN now
    ELSE NaT

\* line 81: the rows that have an effective end
HasEffectiveEnd(t) == trip_end_effective(t, NowTick) # NaT

\* the money columns of the frame, in the order of RAW_MONEY_COLS, normalised
ValueCols == <<"trip_price", "total_earnings">>

\* lines 81-84, 108-109: per_trip, one row per kept trip
PerTripRows(raw, now) ==
    LET kept == SelectSeq(raw, HasEffectiveEnd)
    IN  [i \in 1..Len(kept) |->
            [trip_id |-> kept[i].id, vehicle |-> kept[i].vehicle,
             month |-> MonthOf(trip_end_effective(kept[i], now)),
             trip_net |-> kept[i].total_earnings]]

\* lines 99-105: melt, one row per money column and kept trip, column-major
LongRows(raw, now) ==
    LET kept == SelectSeq(raw, HasEffectiveEnd)
        n == Len(kept)
    IN  [k \in 1..(n * Len(ValueCols)) |->
            LET c == ((k - 1) \div n) + 1
                i == ((k - 1) % n) + 1
            IN  [trip_id |-> kept[i].id, vehicle |-> kept[i].vehicle,
                 month |-> MonthOf(trip_end_effective(kept[i], now)),
                 category |-> ValueCols[c],
                 amount |-> kept[i][ValueCols[c]]]]

RECURSIVE SumField(_, _)
\* SUM(field) over the rows of a table
SumField(rows, field) ==
    IF rows = <<>> THEN 0
    ELSE Head(rows)[field] + SumField(Tail(rows), field)

\* lines 139-145: SELECT month, vehicle, category, SUM(amount) ... GROUP BY 1,2,3
RollupCategory(items) ==
    {[month |-> r.month, vehicle |-> r.vehicle, category |-> r.category,
      amount |-> SumField(SelectSeq(items,
                    LAMBDA x : /\ x.month = r.month /\ x.vehicle = r.vehicle
                               /\ x.category = r.category), "amount")] :
        r \in {items[i] : i \in 1..Len(items)}}

\* lines 146-152: SELECT month, vehicle, SUM(trip_net) ... GROUP BY 1,2
RollupTotal(trips) ==
    {[month |-> r.month, vehicle |-> r.vehicle,
      net_total |-> SumField(SelectSeq(trips,
                       LAMBDA x : x.month = r.month /\ x.vehicle = r.vehicle),
                       "trip_net")] :
        r \in {trips[i] : i \in 1..Len(trips)}}

\* (a load that inserts without deleting first)
load_append(d, long, per_trip) ==
    LET items == d.fact_line_items \o long
        trips == d.fact_trip_net \o per_trip
    IN  [fact_line_items |-> items,
         fact_trip_net |-> trips,
         rpt_month_vehicle_category |-> RollupCategory(items),
         rpt_month_vehicle_total |-> RollupTotal(trips)]

\* load, lines 116-154: DELETE, INSERT, CREATE OR REPLACE the two rollups
load(d, long, per_trip) ==
    [fact_line_items |-> long,
     fact_trip_net |-> per_trip,
     rpt_month_vehicle_category |-> RollupCategory(long),
     rpt_month_vehicle_total |-> RollupTotal(per_trip)]

NoEtl == [now |-> 0, raw |-> <<>>, transformed |-> FALSE, long |-> <<>>,
          per_trip |-> <<>>, loads |-> 0]

\* no table exists yet: CREATE TABLE IF NOT EXISTS makes them empty
NoDb == [fact_line_items |-> <<>>, fact_trip_net |-> <<>>,
         rpt_month_vehicle_category |-> {}, rpt_month_vehicle_total |-> {}]

\* what an earlier run left in the database
OldDb ==
    load(NoDb,
         <<[trip_id |-> "r0", vehicle |-> "v1", month |-> 0,
            category |-> "total_earnings", amount |-> 1]>>,
         <<[trip_id |-> "r0", vehicle |-> "v1", month |-> 0, trip_net |-> 1]>>)

\* ---------------------------------------------------------------------- run
\* the runs that share the export directory
Runs == {1, 2}
NoCapture == [src |-> "none", stamp |-> 0, data |-> <<>>]

NoScope == [kind |-> "none", url |-> "none", cfg |-> EmptyScope]

NoResp == [url |-> "none", ct |-> "none", body |-> "none"]

NoHist ==
    [loginLanded |-> FALSE,     \* a navigation ended on a login/auth URL
     navAfterLogin |-> FALSE,   \* ... and a target was navigated after that
     acquireCalled |-> FALSE,   \* click_download_and_save was entered
     finds |-> 0,               \* calls of _find_and_click_csv
     topFound |-> FALSE,        \* the top-level document yielded an activation
     frameAfterTop |-> FALSE,   \* a frame was probed after the top-level activated
     adProbed |-> FALSE,        \* an ad/analytics frame was handed to the cascade
     ctlInAd |-> FALSE,         \* an ad/analytics frame held a matching control
     ctlElsewhere |-> FALSE,    \* a matching control was seen anywhere else
     clicks |-> 0,              \* activations performed (0, 1, 2 = more)
     unarmedSave |-> FALSE,     \* a download was saved that was clicked before the hook
     missedSync |-> FALSE,      \* a download fired with the click and was not seen
     timeouts |-> {},           \* paths on which an activation met no download
     sniffChecks |-> 0,         \* times the sniffer buffer was checked
     tableRuns |-> 0,           \* times the table transcoder was run
     tableFirst |-> FALSE,      \* the transcoder ran before the buffer was checked
     written |-> <<>>,          \* sources of the capture files written, in order
     diagSite |-> "none",       \* page the diagnostics snapshot was taken of
     etlRuns |-> 0,             \* times the transform step was started
     etlExit |-> "none",        \* exit status of the transform step
     firstNav |-> "none",       \* the target the navigator visited first
     navExc |-> "none",         \* what go_to_host_finance raised
     bizNav |-> "none",         \* page.goto(BUSINESS_EARNINGS_URL): "ok" or "raised"
     scrapeSite |-> "none",     \* page the table transcoder read
     lastResp |-> NoResp,       \* the response the sniffer callback last ran for
     prevBuf |-> "None",        \* the buffer before that callback ran
     seen |-> "None"]           \* the buffer as the check of line 546 read it

IdleRun ==
    /\ etl = NoEtl /\ db = NoDb
    /\ mode = "none" /\ browser = "none" /\ sniffing = FALSE /\ buf = "None"
    /\ ti = 0 /\ page = BlankPage /\ exc = "none" /\ scope = NoScope
    /\ res = NoResult /\ fi = 0 /\ nframes = 0 /\ li = 0 /\ table = NoTable
    /\ files = EmptyDir /\ debug = {} /\ outcome = "running" /\ hist = NoHist
    /\ caps = [r \in Runs |-> NoCapture]

Init ==
    /\ storage \in {"unset", "missing", "present"}
    /\ startUrl \in {"unset", "set"}
    /\ pc = "start"
    /\ IdleRun

\* main, lines 564-626: resolve the session, open the page.
ResolveSession ==
    /\ pc = "start"
    /\ IF storage = "present"
       THEN mode' = "reusable" /\ sniffing' = TRUE     \* lines 578-607
       ELSE mode' = "persistent" /\ sniffing' = FALSE  \* lines 609-623
    /\ browser' = "open"
    /\ pc' = "nav"
    /\ ti' = 1
    /\ UNCHANGED <<storage, startUrl, etl, db, buf, page, exc, scope, res, fi, nframes, li, table,
                   files, caps, debug, outcome, hist>>

\* line 69: BUSINESS_EARNINGS_URL = os.environ.get("TURO_START_URL", <default>)
BusinessEarningsUrl(start) ==
    IF start = "set" THEN "start_url" ELSE "business/earnings"

\* line 153: targets = list(HOST_TARGETS) + [BUSINESS_EARNINGS_URL]
Targets(start) ==
    <<"host/transactions", "host/earnings", "host/trips",
      "locale/host/transactions", "locale/host/earnings", "locale/host/trips",
      BusinessEarningsUrl(start)>>

\* what go_to_host_finance raises when target i lands on p: login-redirect
\* (line 165), the RuntimeError after the loop (line 199), or nothing
NavRaises(i, p) ==
    IF p.loaded /\ IsLoginRedirect(p.url) THEN "login-redirect"
    ELSE IF p.loaded /\ ~looks_like_marketing_shell(p) /\ p.fintext THEN "none"
    ELSE IF i < NumTargets THEN "none"
    ELSE "no-target"

\* go_to_host_finance, one iteration of the loop over the targets
\* (lines 154-199): goto, then login check, marketing check, tab click,
\* confirmation; after the last target the function raises.
NavContinue ==
    IF ti < NumTargets
    THEN ti' = ti + 1 /\ pc' = "nav" /\ exc' = "none"
    ELSE ti' = 0 /\ pc' = "navfailed" /\ exc' = "no-target"

NavStep ==
    /\ pc = "nav"
    /\ \E p \in LandedPages("host") :
          /\ page' = p
          /\ hist' = [hist EXCEPT
                 !.loginLanded = @ \/ (p.loaded /\ p.url \in {"login", "auth"}),
                 !.navAfterLogin = @ \/ hist.loginLanded,
                 !.firstNav = IF ti = 1 THEN Targets(startUrl)[ti] ELSE @,
                 !.navExc = NavRaises(ti, p)]
          /\ IF ~p.loaded
             THEN NavContinue                       \* goto raised: lines 196-197
             ELSE IF IsLoginRedirect(p.url)
             THEN ti' = 0 /\ pc' = "navfailed" /\ exc' = "login-redirect"
             ELSE IF looks_like_marketing_shell(p)
             THEN NavContinue
             ELSE IF p.fintext
             THEN ti' = 0 /\ pc' = "acquire" /\ exc' = "none"
             ELSE NavContinue                       \* lines 189-191
    /\ UNCHANGED <<storage, startUrl, etl, db, mode, browser, sniffing, buf, scope, res, fi, nframes,
                   li, table, files, caps, debug, outcome>>

\* main, lines 632-642: the handler of the navigator's RuntimeError.
NavFailure ==
    /\ pc = "navfailed"
    /\ debug' = debug \cup {"login_or_marketing_redirect"}
    /\ exc' = IF IsLoginLikeUrl(page.url) THEN "InvalidSession"
              ELSE IF looks_like_marketing_shell(page) THEN "MarketingShell"
              ELSE exc
    /\ pc' = "closing"
    /\ UNCHANGED <<storage, startUrl, etl, db, mode, browser, sniffing, buf, ti, page, scope, res, fi,
                   nframes, li, table, files, caps, outcome, hist>>
\* ------------------------------------------------------- click_download_and_save
\* URL of a nested frame, by the tokens line 492 looks for.
FrameUrls == {"ads", "doubleclick", "googletag", "tracking", "app"}

\* line 492: any(x in f.url for x in ["ads", "doubleclick", "googletag", "tracking"])
\* (a token list that lacks "tracking")
IsExcludedFrameNoTracking(u) == u \in {"ads", "doubleclick", "googletag"}
IsExcludedFrame(u) == u \in {"ads", "doubleclick", "googletag", "tracking"}

\* the download a scope raises for the cascade's clicks, normalised
Cascade(c) == find_and_click_csv(c)

\* the tokens of an advertising / analytics frame URL
AdTokens == {"ads", "doubleclick", "googletag", "tracking"}

\* history after the cascade ran on a scope
AfterFind(h, path, r, caught) ==
    [h EXCEPT
        !.acquireCalled = TRUE,
        !.finds = IF @ < MaxFrames + 1 THEN @ + 1 ELSE @,
        !.topFound = @ \/ (path = "top" /\ r.activated),
        !.frameAfterTop = @ \/ (path = "frame" /\ h.topFound),
        !.ctlElsewhere = @ \/ r.activated,
        !.clicks = IF r.activated /\ @ < 2 THEN @ + 1 ELSE @,
        !.missedSync = @ \/ (r.activated /\ r.dl = "sync" /\ ~caught),
        !.unarmedSave = @ \/ (r.activated /\ caught /\ ~HookArmedAtClick(path)),
        !.timeouts = IF r.activated /\ ~caught THEN @ \cup {path} ELSE @,
        !.written = IF r.activated /\ caught THEN Append(@, "primary") ELSE @]

\* lines 480-485, 497-502, 527-532: save the download under a stamped name
SaveDownload ==
    \E st \in Stamps : files' = WriteFile(files, "primary", st, Bytes("export"))

\* lines 469-485: the cascade on the top-level page.  A timeout of
\* page.expect_download here is raised outside any try block.
AcquireTopWith(c) ==
    /\ pc = "acquire"
    /\ LET r == Cascade(c)
           caught == Caught("top", r.dl)
       IN  /\ scope' = [kind |-> "top", url |-> "page", cfg |-> c]
           /\ res' = r
           /\ hist' = AfterFind(hist, "top", r, caught)
           /\ IF r.activated
              THEN /\ pc' = "closing"
                   /\ UNCHANGED <<fi, nframes>>
                   /\ IF caught
                      THEN SaveDownload /\ exc' = "none"
                      ELSE exc' = "PWTimeout" /\ UNCHANGED files
              ELSE /\ pc' = "frames"
                   /\ fi' = 1
                   /\ \E n \in 0..MaxFrames : nframes' = n
                   /\ UNCHANGED <<exc, files>>
    /\ UNCHANGED <<storage, startUrl, etl, db, mode, browser, sniffing, buf, ti, page, li, table,
                   caps, debug, outcome>>

AcquireTop == \E c \in RunScopes : AcquireTopWith(c)

\* what a nested frame is explored with: nothing, a CSV control (hidden or
\* visible, with each kind of download), or an Export button
FrameScopes ==
    {c \in RunScopes : c.attr = "none" /\ c.kebab = "none" /\ c.export \in {"none", "ok"}}

\* lines 488-504, one iteration of the loop over page.frames (the main
\* frame left out): excluded frames are skipped, any exception in the body
\* moves on to the next frame.
FrameStep ==
    /\ pc = "frames"
    /\ fi <= nframes
    /\ \E u \in FrameUrls, c \in FrameScopes :
          /\ scope' = [kind |-> "frame", url |-> u, cfg |-> c]
          /\ IF IsExcludedFrame(u)
             THEN /\ res' = NoResult
                  /\ hist' = [hist EXCEPT
                         !.ctlInAd = @ \/ (u \in AdTokens /\ Cascade(c).activated),
                         !.ctlElsewhere = @ \/ (u \notin AdTokens /\ Cascade(c).activated)]
                  /\ fi' = fi + 1
                  /\ UNCHANGED <<pc, files>>
             ELSE LET r == Cascade(c)
                      caught == Caught("frame", r.dl)
                      h == AfterFind(hist, "frame", r, caught)
                  IN  /\ res' = r
                      /\ hist' = [h EXCEPT
                             !.adProbed = @ \/ u \in AdTokens,
                             !.ctlInAd = @ \/ (u \in AdTokens /\ r.activated),
                             !.ctlElsewhere = hist.ctlElsewhere
                                                \/ (u \notin AdTokens /\ r.activated)]
                      /\ IF r.activated /\ caught
                         THEN SaveDownload /\ pc' = "closing" /\ fi' = fi
                         ELSE fi' = fi + 1 /\ UNCHANGED <<pc, files>>
    /\ UNCHANGED <<storage, startUrl, etl, db, mode, browser, sniffing, buf, ti, page, exc, nframes,
                   li, table, caps, debug, outcome>>

\* the loop over page.frames ends
FramesDone ==
    /\ pc = "frames"
    /\ fi > nframes
    /\ pc' = "business"
    /\ scope' = NoScope /\ res' = NoResult /\ fi' = 0 /\ nframes' = 0
    /\ UNCHANGED <<storage, startUrl, etl, db, mode, browser, sniffing, buf, ti, page, exc, li, table,
                   files, caps, debug, outcome, hist>>

\* the business-earnings page, as far as the run looks at it
BusinessPages ==
    {p \in LandedPages("business") :
        /\ p.url \in {"plain", "login"} /\ ~p.landmark /\ p.mhits = MaxHits
        /\ ~p.fintext /\ p.loaded}

\* (a last-resort probe that leaves the page where the navigator left it)
BusinessGotoElsewhere ==
    /\ pc = "business"
    /\ \E ok \in BOOLEAN :
          /\ hist' = [hist EXCEPT !.bizNav = IF ok THEN "ok" ELSE "raised"]
          /\ IF ok THEN pc' = "bizlocs" /\ li' = 1
                   ELSE pc' = "fallback" /\ li' = 0
    /\ UNCHANGED <<storage, startUrl, etl, db, mode, browser, sniffing, buf, ti, page, exc, scope,
                   res, fi, nframes, table, files, caps, debug, outcome>>

\* lines 507-513: navigate the page to BUSINESS_EARNINGS_URL; an exception
\* skips the whole step (line 535).
BusinessGoto ==
    /\ pc = "business"
    /\ \E ok \in BOOLEAN, p \in BusinessPages :
          /\ page' = IF ok THEN p ELSE page
          /\ hist' = [hist EXCEPT !.bizNav = IF ok THEN "ok" ELSE "raised"]
          /\ IF ok THEN pc' = "bizlocs" /\ li' = 1
                   ELSE pc' = "fallback" /\ li' = 0
    /\ UNCHANGED <<storage, startUrl, etl, db, mode, browser, sniffing, buf, ti, exc, scope, res, fi,
                   nframes, table, files, caps, debug, outcome>>

\* lines 522-534, one locator of the list: if visible, click it inside
\* page.expect_download and save; any exception moves on to the next.
BizLoc ==
    /\ pc = "bizlocs"
    /\ li <= NumBizLocs
    /\ \E vis \in BOOLEAN, clickOk \in BOOLEAN, dl \in DlKinds :
          LET r == [activated |-> vis /\ clickOk,
                    calls |-> <<"download_csv">>,
                    clicks |-> IF vis /\ clickOk THEN <<"named">> ELSE <<>>,
                    dl |-> IF vis /\ clickOk THEN dl ELSE "none"]
              caught == Caught("business", r.dl)
          IN  /\ scope' = [kind |-> "business", url |-> "page", cfg |-> EmptyScope]
              /\ res' = r
              /\ hist' = [AfterFind(hist, "business", r, caught) EXCEPT
                               !.finds = hist.finds]
              /\ IF r.activated /\ caught
                 THEN SaveDownload /\ pc' = "closing" /\ li' = 0
                 ELSE li' = li + 1 /\ UNCHANGED <<pc, files>>
    /\ UNCHANGED <<storage, startUrl, etl, db, mode, browser, sniffing, buf, ti, page, exc, fi,
                   nframes, table, caps, debug, outcome>>

BizDone ==
    /\ pc = "bizlocs"
    /\ li > NumBizLocs
    /\ pc' = "fallback"
    /\ li' = 0 /\ scope' = NoScope /\ res' = NoResult
    /\ UNCHANGED <<storage, startUrl, etl, db, mode, browser, sniffing, buf, ti, page, exc, fi,
                   nframes, table, files, caps, debug, outcome, hist>>

\* lines 539-544: save_debug and dump_controls on the current page
Diagnostics ==
    /\ pc = "fallback"
    /\ debug' = debug \cup {"debug_earnings_page"}
    /\ hist' = [hist EXCEPT !.diagSite = page.site]
    /\ pc' = "sniff"
    /\ UNCHANGED <<storage, startUrl, etl, db, mode, browser, sniffing, buf, ti, page, exc, scope, res,
                   fi, nframes, li, table, files, caps, outcome>>

\* (a check that only asks whether anything was captured)
TruthyNotNone(b) == b # "None"

\* line 546: csv_bytes.get("buf") is truthy
Truthy(b) == b \notin {"None", ""}

\* (a flush of the buffer that does not return, and falls through to the
\* transcoder)
SniffFallbackAndGoOn ==
    /\ pc = "sniff"
    /\ hist' = [hist EXCEPT
           !.sniffChecks = IF @ < 2 THEN @ + 1 ELSE @,
           !.written = IF Truthy(buf) THEN Append(@, "sniffed") ELSE @]
    /\ IF Truthy(buf)
       THEN \E st \in Stamps : files' = WriteFile(files, "sniffed", st, Bytes(buf))
       ELSE UNCHANGED files
    /\ pc' = "scrape"
    /\ UNCHANGED <<storage, startUrl, etl, db, mode, browser, sniffing, buf, ti, page, exc, scope, res,
                   fi, nframes, li, table, caps, debug, outcome>>

\* lines 546-552: flush the sniffer buffer to a file if it holds anything
SniffFallback ==
    /\ pc = "sniff"
    /\ hist' = [hist EXCEPT
           !.sniffChecks = IF @ < 2 THEN @ + 1 ELSE @,
           !.written = IF Truthy(buf) THEN Append(@, "sniffed") ELSE @]
    /\ IF Truthy(buf)
       THEN /\ \E st \in Stamps : files' = WriteFile(files, "sniffed", st, Bytes(buf))
            /\ pc' = "closing"
       ELSE /\ pc' = "scrape"
            /\ UNCHANGED files
    /\ UNCHANGED <<storage, startUrl, etl, db, mode, browser, sniffing, buf, ti, page, exc, scope, res,
                   fi, nframes, li, table, caps, debug, outcome>>

\* lines 554-558: the table transcoder on the current page, then the
\* terminal RuntimeError
ScrapeWith(t) ==
    /\ pc = "scrape"
    /\ table' = t
    /\ LET out == extract_table_to_csv(t)
       IN  /\ hist' = [hist EXCEPT
                  !.tableRuns = IF @ < 2 THEN @ + 1 ELSE @,
                  !.tableFirst = @ \/ hist.sniffChecks = 0,
                  !.scrapeSite = page.site,
                  !.written = IF out # <<>> THEN Append(@, "scraped") ELSE @]
           /\ IF out # <<>>
              THEN /\ \E st \in Stamps : files' = WriteFile(files, "scraped", st, out)
                   /\ exc' = "none"
              ELSE /\ exc' = "no-csv"
                   /\ UNCHANGED files
    /\ pc' = "closing"
    /\ UNCHANGED <<storage, startUrl, etl, db, mode, browser, sniffing, buf, ti, page, scope, res, fi,
                   nframes, li, caps, debug, outcome>>

Cell(tag, text) == [tag |-> tag, text |-> text]

\* the page shows no table, or a small one with a ragged row
RunTables ==
    {NoTable,
     [visible |-> TRUE,
      rows |-> <<<<Cell("th", "h1"), Cell("th", "h2")>>,
                 <<Cell("td", "x")>>>>]}

ScrapeFallback == \E t \in RunTables : ScrapeWith(t)

\* main, lines 647-651 and what the exception in flight makes of the run
Reason(e) ==
    CASE e = "InvalidSession" -> "InvalidSession"
      [] e = "MarketingShell" -> "MarketingShell"
      [] e = "login-redirect" -> "LoginRedirect"
      [] e = "no-target" -> "NoTargetReachable"
      [] e = "PWTimeout" -> "DownloadTimeout"
      [] e = "no-csv" -> "AcquisitionExhausted"
      [] e = "OSError" -> "WriteFailed"

\* (a run that closes the browser only when nothing is in flight)
CloseBrowserOnSuccess ==
    /\ pc = "closing"
    /\ browser' = IF exc = "none" THEN "closed" ELSE browser
    /\ IF exc = "none"
       THEN pc' = "etl" /\ UNCHANGED outcome
       ELSE pc' = "done" /\ outcome' = Reason(exc)
    /\ scope' = NoScope /\ res' = NoResult /\ fi' = 0 /\ nframes' = 0 /\ li' = 0
    /\ UNCHANGED <<storage, startUrl, etl, db, mode, sniffing, buf, ti, page, exc, table, files,
                   caps, debug, hist>>

\* (a run that goes on to the transform step whatever is in flight)
CloseBrowserThenEtl ==
    /\ pc = "closing"
    /\ browser' = "closed"
    /\ pc' = "etl"
    /\ scope' = NoScope /\ res' = NoResult /\ fi' = 0 /\ nframes' = 0 /\ li' = 0
    /\ UNCHANGED <<storage, startUrl, etl, db, mode, sniffing, buf, ti, page, exc, table, files,
                   caps, debug, outcome, hist>>

CloseBrowser ==
    /\ pc = "closing"
    /\ browser' = "closed"
    /\ IF exc = "none"
       THEN pc' = "etl" /\ UNCHANGED outcome
       ELSE pc' = "done" /\ outcome' = Reason(exc)
    /\ scope' = NoScope /\ res' = NoResult /\ fi' = 0 /\ nframes' = 0 /\ li' = 0
    /\ UNCHANGED <<storage, startUrl, etl, db, mode, sniffing, buf, ti, page, exc, table, files, caps,
                   debug, hist>>

\* main, lines 653-656: subprocess.run(ETL_CMD, check=True)
RunETL ==
    /\ pc = "etl"
    /\ \E exit0 \in BOOLEAN :
          /\ hist' = [hist EXCEPT
                 !.etlRuns = IF @ < 2 THEN @ + 1 ELSE @,
                 !.etlExit = IF exit0 THEN "zero" ELSE "nonzero"]
          /\ outcome' = IF exit0 THEN "ok" ELSE "EtlFailed"
    /\ pc' = "done"
    /\ UNCHANGED <<storage, startUrl, etl, db, mode, browser, sniffing, buf, ti, page, exc, scope, res,
                   fi, nframes, li, table, files, caps, debug>>

\* ------------------------------------------------------------ network sniffer
\* a response: where ".csv" stands in its URL, its content type, its body
\* ("raise": resp.body() raises)
RespUrls == {"ends_csv", "mid_csv", "no_csv"}
RespTypes == {"text/csv", "other"}
RespBodies == {"raise", "", "b1"}

\* (a slot that keeps the first body it was given)
maybe_capture_csv_first_wins(b, url, ct, body) ==
    IF (url \in {"ends_csv", "mid_csv"} \/ ct = "text/csv") /\ body # "raise" /\ b = "None"
    THEN body
    ELSE b

\* _maybe_capture_csv, lines 598-605
maybe_capture_csv(b, url, ct, body) ==
    IF (url \in {"ends_csv", "mid_csv"} \/ ct = "text/csv") /\ body # "raise"
    THEN body
    ELSE b

\* (a dispatcher that could run the callback at any point of the main flow)
InDriverCallAlways(p) == TRUE

\* The sync API runs event callbacks only while the main flow is inside a
\* call into the browser driver: the positions whose code makes such calls.
\* Lines 546-552 (check, stamp, open, write, log, return) make none.
InDriverCall(p) ==
    p \in {"nav", "navfailed", "acquire", "frames", "business", "bizlocs", "fallback"}

\* a response arrives while the page is driven (the callback runs inside a
\* call into the browser driver)
Response ==
    /\ browser = "open"
    /\ sniffing
    /\ InDriverCall(pc)
    /\ \E url \in RespUrls, ct \in RespTypes, body \in RespBodies :
          buf' = maybe_capture_csv(buf, url, ct, body)
    /\ buf' # buf
    /\ UNCHANGED <<storage, startUrl, etl, db, mode, browser, sniffing, pc, ti, page, exc, scope, res,
                   fi, nframes, li, table, files, caps, debug, outcome, hist>>

Next ==
    \/ ResolveSession
    \/ NavStep
    \/ NavFailure
    \/ AcquireTop
    \/ FrameStep
    \/ FramesDone
    \/ BusinessGoto
    \/ BizLoc
    \/ BizDone
    \/ Diagnostics
    \/ SniffFallback
    \/ ScrapeFallback
    \/ CloseBrowser
    \/ RunETL
    \/ Response

Spec == Init /\ [][Next]_vars
\* ------------------------------------------------- the cascade on any scope
\* The run stands at the start of click_download_and_save, in reusable mode,
\* on a page the navigator accepted.
AtAcquire ==
    /\ storage = "present" /\ startUrl = "unset"
    /\ etl = NoEtl /\ db = NoDb
    /\ mode = "reusable" /\ browser = "open"
    /\ sniffing = TRUE /\ buf = "None" /\ ti = 0
    /\ page = [url |-> "plain", landmark |-> TRUE, mhits |-> MaxHits,
               fintext |-> TRUE, site |-> "host", loaded |-> TRUE]
    /\ exc = "none" /\ scope = NoScope /\ res = NoResult /\ fi = 0 /\ nframes = 0
    /\ li = 0 /\ table = NoTable /\ files = EmptyDir /\ debug = {}
    /\ outcome = "running" /\ hist = NoHist
    /\ caps = [r \in Runs |-> NoCapture]

InitCascade == pc = "acquire" /\ AtAcquire

AcquireTopAny == \E c \in Scopes : AcquireTopWith(c)

NextCascade == AcquireTopAny

SpecCascade == InitCascade /\ [][NextCascade]_vars

\* ------------------------------------------------ the transcoder on any table
HeaderRows == UNION {[1..w -> {Cell("th", "h")}] : w \in 0..MaxHeader}
DataRows == UNION {[1..k -> {Cell("td", ""), Cell("td", "x")}] : k \in 0..MaxCells}
DataRowSeqs == UNION {[1..n -> DataRows] : n \in 0..MaxRows}

\* a header row of th cells (none when it would be empty), then the data rows
Tables ==
    {[visible |-> TRUE, rows |-> (IF h = <<>> THEN <<>> ELSE <<h>>) \o d] :
        h \in HeaderRows, d \in DataRowSeqs}

InitTable == pc = "scrape" /\ AtAcquire

ScrapeAny == \E t \in Tables : ScrapeWith(t)

NextTable == ScrapeAny

SpecTable == InitTable /\ [][NextTable]_vars

\* ------------------------------------- runs that share the export directory
\* Each run writes its one capture file at one of the three places that
\* write into CSV_DIR, under the stamp of the second it reads the clock in.
Recorded(r, src, st, data) ==
    caps' = [caps EXCEPT ![r] = [src |-> src, stamp |-> st, data |-> data]]

\* lines 481-483 (497-500, 528-530): download.save_as(CSV_DIR/turo_earnings_<stamp>.csv)
CaptureDownload(r) ==
    /\ pc = "shared"
    /\ caps[r].src = "none"
    /\ \E st \in Stamps, b \in {"export_a", "export_b"} :
          /\ files' = WriteFile(files, "primary", st, Bytes(b))
          /\ Recorded(r, "primary", st, Bytes(b))
    /\ UNCHANGED <<storage, startUrl, etl, db, mode, browser, sniffing, buf, pc, ti, page, exc, scope,
                   res, fi, nframes, li, table, debug, outcome, hist>>

\* lines 547-550: open(CSV_DIR/turo_earnings_sniffed_<stamp>.csv, "wb")
CaptureSniffed(r) ==
    /\ pc = "shared"
    /\ caps[r].src = "none"
    /\ \E st \in Stamps, b \in {"b1", "b2"} :
          /\ files' = WriteFile(files, "sniffed", st, Bytes(b))
          /\ Recorded(r, "sniffed", st, Bytes(b))
    /\ UNCHANGED <<storage, startUrl, etl, db, mode, browser, sniffing, buf, pc, ti, page, exc, scope,
                   res, fi, nframes, li, table, debug, outcome, hist>>

\* lines 445-451: open(CSV_DIR/turo_earnings_scraped_<stamp>.csv, "w")
CaptureScraped(r) ==
    /\ pc = "shared"
    /\ caps[r].src = "none"
    /\ \E st \in Stamps, t \in RunTables \ {NoTable}, x \in {"x", "y"} :
          LET out == extract_table_to_csv(
                         [t EXCEPT !.rows = Append(@, <<Cell("td", x)>>)])
          IN  /\ files' = WriteFile(files, "scraped", st, out)
              /\ Recorded(r, "scraped", st, out)
    /\ UNCHANGED <<storage, startUrl, etl, db, mode, browser, sniffing, buf, pc, ti, page, exc, scope,
                   res, fi, nframes, li, table, debug, outcome, hist>>

InitCapture == pc = "shared" /\ storage = "present" /\ startUrl = "unset" /\ IdleRun

NextCapture ==
    \E r \in Runs : CaptureDownload(r) \/ CaptureSniffed(r) \/ CaptureScraped(r)

SpecCapture == InitCapture /\ [][NextCapture]_vars

\* ------------------------------------------- the fallback writes, step by step
\* The two writes into CSV_DIR that the source spells out (lines 447-451 and
\* 549-550), at the grain of the file system: open() creates the file empty
\* (or truncates it), the content follows call by call, and a call can raise
\* OSError (disk full, quota, I/O error).  caps[1] holds what the run has
\* assembled in memory, li how much of it the file holds.
InitWrite ==
    /\ pc = "assembled"
    /\ storage = "present" /\ startUrl = "unset"
    /\ etl = NoEtl /\ db = NoDb
    /\ mode = "reusable" /\ browser = "open" /\ sniffing = TRUE
    /\ buf \in {"None", "b1"}
    /\ ti = 0
    /\ page = [url |-> "plain", landmark |-> TRUE, mhits |-> MaxHits,
               fintext |-> TRUE, site |-> "host", loaded |-> TRUE]
    /\ exc = "none" /\ scope = NoScope /\ res = NoResult /\ fi = 0 /\ nframes = 0
    /\ li = 0 /\ table = NoTable /\ files = EmptyDir
    /\ debug = {"debug_earnings_page"}
    /\ outcome = "running" /\ hist = NoHist
    /\ caps = [r \in Runs |-> NoCapture]

\* lines 546-549: the buffer is truthy; open(target, "wb")
OpenSniffed ==
    /\ pc = "assembled"
    /\ Truthy(buf)
    /\ \E st \in Stamps :
          /\ files' = WriteFile(files, "sniffed", st, <<>>)
          /\ Recorded(1, "sniffed", st, Bytes(buf))
    /\ li' = 0
    /\ pc' = "writing"
    /\ UNCHANGED <<storage, startUrl, etl, db, mode, browser, sniffing, buf, ti, page, exc,
                   scope, res, fi, nframes, table, debug, outcome, hist>>

\* lines 437-447: the rows are normalised in memory, then open(out_path, "w")
OpenScraped ==
    /\ pc = "assembled"
    /\ ~Truthy(buf)
    /\ \E t \in Tables, st \in Stamps :
          LET out == extract_table_to_csv(t)
          IN  /\ out # <<>>
              /\ table' = t
              /\ files' = WriteFile(files, "scraped", st, <<>>)
              /\ Recorded(1, "scraped", st, out)
    /\ li' = 0
    /\ pc' = "writing"
    /\ UNCHANGED <<storage, startUrl, etl, db, mode, browser, sniffing, buf, ti, page, exc,
                   scope, res, fi, nframes, debug, outcome, hist>>

\* line 550 fo.write(...), lines 448-451 w.writerow / w.writerows: the next
\* part of the content reaches the file
WriteNext ==
    /\ pc = "writing"
    /\ li < Len(caps[1].data)
    /\ files' = [files EXCEPT ![FileName(caps[1].src, caps[1].stamp)].data =
                     Append(@, caps[1].data[li + 1])]
    /\ li' = li + 1
    /\ UNCHANGED <<storage, startUrl, etl, db, mode, browser, sniffing, buf, pc, ti, page, exc,
                   scope, res, fi, nframes, table, caps, debug, outcome, hist>>

\* lines 551-552, 453-454: the with block ends and the path is returned
FinishWrite ==
    /\ pc = "writing"
    /\ li = Len(caps[1].data)
    /\ hist' = [hist EXCEPT !.written = Append(@, caps[1].src)]
    /\ exc' = "none"
    /\ pc' = "closing"
    /\ UNCHANGED <<storage, startUrl, etl, db, mode, browser, sniffing, buf, ti, page, scope,
                   res, fi, nframes, li, table, files, caps, debug, outcome>>

\* a write raises.  In _extract_table_to_csv the except of line 456 swallows
\* it, no candidate is left, the function returns None and line 558 raises;
\* at lines 549-550 nothing catches it.  Neither place removes the file.
WriteFault ==
    /\ pc = "writing"
    /\ li < Len(caps[1].data)
    /\ exc' = IF caps[1].src = "scraped" THEN "no-csv" ELSE "OSError"
    /\ pc' = "closing"
    /\ UNCHANGED <<storage, startUrl, etl, db, mode, browser, sniffing, buf, ti, page, scope,
                   res, fi, nframes, li, table, files, caps, debug, outcome, hist>>

NextWrite ==
    \/ OpenSniffed
    \/ OpenScraped
    \/ WriteNext
    \/ FinishWrite
    \/ WriteFault
    \/ CloseBrowser
    \/ RunETL

SpecWrite == InitWrite /\ [][NextWrite]_vars

\* ------------------------------------ the sniffer against the sniff fallback
\* The end of click_download_and_save with the callback observed response by
\* response, and lines 546-552 taken apart: the check of the buffer, then the
\* write, which reads the buffer again.
SniffBodies == {"raise", "", "b1", "b2"}

InitSniffer == pc = "fallback" /\ AtAcquire

ResponseAny ==
    /\ browser = "open"
    /\ sniffing
    /\ InDriverCall(pc)
    /\ \E url \in RespUrls, ct \in RespTypes, body \in SniffBodies :
          /\ buf' = maybe_capture_csv(buf, url, ct, body)
          /\ hist' = [hist EXCEPT
                 !.lastResp = [url |-> url, ct |-> ct, body |-> body],
                 !.prevBuf = buf]
    /\ UNCHANGED <<storage, startUrl, etl, db, mode, browser, sniffing, pc, ti, page, exc, scope,
                   res, fi, nframes, li, table, files, caps, debug, outcome>>

\* line 546: if csv_bytes.get("buf")
SniffCheck ==
    /\ pc = "sniff"
    /\ hist' = [hist EXCEPT
           !.sniffChecks = IF @ < 2 THEN @ + 1 ELSE @,
           !.seen = buf]
    /\ pc' = IF Truthy(buf) THEN "sniffwrite" ELSE "scrape"
    /\ UNCHANGED <<storage, startUrl, etl, db, mode, browser, sniffing, buf, ti, page, exc, scope,
                   res, fi, nframes, li, table, files, caps, debug, outcome>>

\* lines 547-552: fo.write(csv_bytes["buf"]) and return
SniffWrite ==
    /\ pc = "sniffwrite"
    /\ \E st \in Stamps : files' = WriteFile(files, "sniffed", st, Bytes(buf))
    /\ hist' = [hist EXCEPT !.written = Append(@, "sniffed")]
    /\ pc' = "closing"
    /\ UNCHANGED <<storage, startUrl, etl, db, mode, browser, sniffing, buf, ti, page, exc, scope,
                   res, fi, nframes, li, table, caps, debug, outcome>>

NextSniffer ==
    \/ ResponseAny
    \/ Diagnostics
    \/ SniffCheck
    \/ SniffWrite
    \/ ScrapeFallback
    \/ CloseBrowser
    \/ RunETL

SpecSniffer == InitSniffer /\ [][NextSniffer]_vars

\* ------------------------------------------------------- the transform step
\* trips that started just under, exactly, just over 30 days and 31 days
\* before the run, or have no start; that ended on day 5, or have no end
TripStarts ==
    {NaT} \cup {NowTick - d : d \in {ThirtyDays * TicksPerDay - 1,
                                     ThirtyDays * TicksPerDay,
                                     ThirtyDays * TicksPerDay + 1,
                                     (ThirtyDays + 1) * TicksPerDay}}
TripEnds == {NaT, 5 * TicksPerDay}

TripRows ==
    [id : {"r1"}, vehicle : {"v1", "v2"}, start : TripStarts, end : TripEnds,
     trip_price : {1}, total_earnings : {1, 2}]

RawFrames == UNION {[1..n -> TripRows] : n \in 0..MaxTrips}

InitEtl ==
    /\ pc = "transform"
    /\ storage = "present" /\ startUrl = "unset"
    /\ etl \in {[NoEtl EXCEPT !.now = NowTick, !.raw = f] : f \in RawFrames}
    /\ db \in {NoDb, OldDb}
    /\ mode = "reusable" /\ browser = "closed" /\ sniffing = TRUE /\ buf = "None"
    /\ ti = 0 /\ page = BlankPage /\ exc = "none" /\ scope = NoScope
    /\ res = NoResult /\ fi = 0 /\ nframes = 0 /\ li = 0 /\ table = NoTable
    /\ files = EmptyDir /\ debug = {} /\ outcome = "running" /\ hist = NoHist
    /\ caps = [r \in Runs |-> NoCapture]

\* transform, lines 55-113
TransformStep ==
    /\ pc = "transform"
    /\ etl' = [etl EXCEPT !.transformed = TRUE,
                          !.long = LongRows(etl.raw, etl.now),
                          !.per_trip = PerTripRows(etl.raw, etl.now)]
    /\ pc' = "load"
    /\ UNCHANGED <<storage, startUrl, db, mode, browser, sniffing, buf, ti, page, exc,
                   scope, res, fi, nframes, li, table, files, caps, debug, outcome, hist>>

\* load(db, long, per_trip), run once more on the same inputs
LoadStep ==
    /\ pc = "load"
    /\ etl.loads < MaxLoads
    /\ db' = load(db, etl.long, etl.per_trip)
    /\ etl' = [etl EXCEPT !.loads = @ + 1]
    /\ UNCHANGED <<storage, startUrl, mode, browser, sniffing, buf, pc, ti, page, exc,
                   scope, res, fi, nframes, li, table, files, caps, debug, outcome, hist>>

NextEtl == TransformStep \/ LoadStep

SpecEtl == InitEtl /\ [][NextEtl]_vars
\* ===================================================================== claims
Range(f) == {f[i] : i \in DOMAIN f}
Existing == {n \in FileNames : files[n].exists}

\* C1: once a navigation has ended on a URL matching the login/auth pattern,
\* no further target is navigated, click_download_and_save is never entered,
\* and the run ends as a failure with the invalid-session reason.
C1_LoginRedirectIsTerminal ==
    hist.loginLanded =>
        /\ ~hist.navAfterLogin
        /\ ~hist.acquireCalled
        /\ hist.finds = 0
        /\ pc \in {"navfailed", "closing", "done"}
        /\ (pc = "done" => outcome = "InvalidSession")

C1_Witness ==
    /\ hist.loginLanded
    /\ page.url = "auth"
    /\ pc = "done"
    /\ outcome = "InvalidSession"

\* C2: when AUTH_STORAGE_STATE names an artifact that does not exist, the run
\* fails at once with a configuration error and never launches the
\* persistent interactive profile.
C2_MissingArtifactFailsFast ==
    (storage = "missing" /\ pc # "start") =>
        /\ mode # "persistent"
        /\ browser = "none"
        /\ outcome = "ConfigurationError"

\* C3: every download that is saved was clicked with the download wait
\* already armed, and no download fired synchronously with an activating
\* click goes unseen.
C3_HookArmedBeforeClick ==
    /\ ~hist.unarmedSave
    /\ ~hist.missedSync

\* C4: an activation that meets no download within the window never ends
\* the run: no timeout is left in flight out of click_download_and_save.
C4_TimeoutIsTierLocal ==
    hist.timeouts # {} =>
        /\ exc # "PWTimeout"
        /\ outcome # "DownloadTimeout"

\* C5: within one scope the strategies are invoked in the order direct,
\* export menu, kebab, the cascade stops at the first that activates, and
\* where direct and kebab would both activate only direct is invoked and
\* its click is the one performed.
StrategyResult(name, c) ==
    CASE name = "direct" -> DirectStrategy(c)
      [] name = "export_menu" -> ExportMenuStrategy(c)
      [] name = "kebab" -> KebabStrategy(c)

CascadeOrder == <<"direct", "export_menu", "kebab">>

C5_CascadeOrder ==
    scope.kind = "top" =>
        /\ res.calls # <<>>
        /\ res.calls = SubSeq(CascadeOrder, 1, Len(res.calls))
        /\ \A i \in 1..(Len(res.calls) - 1) :
              ~StrategyResult(res.calls[i], scope.cfg).activated
        /\ res.activated = StrategyResult(res.calls[Len(res.calls)], scope.cfg).activated
        /\ (~res.activated => Len(res.calls) = Len(CascadeOrder))
        /\ (DirectStrategy(scope.cfg).activated /\ KebabStrategy(scope.cfg).activated
               => /\ res.calls = <<"direct">>
                  /\ res.activated
                  /\ res.clicks = DirectStrategy(scope.cfg).clicks)

C5_Witness ==
    /\ scope.kind = "top"
    /\ scope.cfg.named = "ok"
    /\ KebabStrategy(scope.cfg).activated
    /\ ExportMenuStrategy(scope.cfg).activated
    /\ res.calls = <<"direct">>
    /\ res.clicks = <<"named">>

\* C6: a frame whose URL holds an ad/analytics token is never handed to the
\* cascade; when the only matching control is in such a frame nothing is
\* activated and no download is captured; and no frame is probed once the
\* top-level document has yielded an activation.
C6_FrameExclusion ==
    /\ ~hist.adProbed
    /\ (scope.kind = "frame" /\ scope.url \in AdTokens => res = NoResult)
    /\ (hist.ctlInAd /\ ~hist.ctlElsewhere =>
            hist.clicks = 0 /\ "primary" \notin Range(hist.written))
    /\ ~hist.frameAfterTop

C6_Witness ==
    /\ hist.ctlInAd
    /\ ~hist.ctlElsewhere
    /\ pc = "done"
    /\ outcome = "AcquisitionExhausted"

\* C7: a run in which click_download_and_save captured no download has, by
\* its end, checked the sniffer buffer once and then, unless the buffer
\* yielded a file, run the table transcoder once.
C7_FallbacksOnceInOrder ==
    (pc = "done" /\ hist.acquireCalled /\ "primary" \notin Range(hist.written)) =>
        /\ hist.sniffChecks = 1
        /\ ~hist.tableFirst
        /\ hist.tableRuns = (IF "sniffed" \in Range(hist.written) THEN 0 ELSE 1)

\* C8: no run writes two capture files, the files in the export directory
\* are the ones the run wrote, and a run that ends successfully has written
\* exactly one, from one source.
C8_ExactlyOneCapture ==
    /\ Len(hist.written) <= 1
    /\ Cardinality(Existing) = Len(hist.written)
    /\ \A n \in Existing : \E s \in Range(hist.written), st \in Stamps : n = FileName(s, st)
    /\ (outcome = "ok" => Len(hist.written) = 1)

C8_Witness ==
    /\ outcome = "ok"
    /\ hist.written = <<"sniffed">>
    /\ \E st \in Stamps : files[FileName("sniffed", st)] = File(Bytes(buf))

\* C9: for a table with a header row of W header cells and N data rows, the
\* transcoder writes the header line and then exactly N rows, every one of
\* W fields.
HasHeaderRow(t) ==
    /\ t.visible
    /\ t.rows # <<>>
    /\ Len(t.rows[1]) >= 1
    /\ \A j \in 1..Len(t.rows[1]) : t.rows[1][j].tag = "th"
    /\ \A i \in 2..Len(t.rows) : \A j \in 1..Len(t.rows[i]) : t.rows[i][j].tag = "td"

C9_TableRowNormalization ==
    (pc = "closing" /\ HasHeaderRow(table)) =>
        \E st \in Stamps :
            LET f == files[FileName("scraped", st)]
            IN  /\ f.exists
                /\ Len(f.data) = 1 + (Len(table.rows) - 1)
                /\ \A i \in 1..Len(f.data) : Len(f.data[i]) = Len(table.rows[1])

\* C10: when the runs sharing the export directory have written their
\* captures, the content every run wrote is still in the directory.
C10_NoSilentOverwrite ==
    \A r \in Runs :
        caps[r].src # "none" =>
            \E n \in FileNames : files[n].exists /\ files[n].data = caps[r].data

\* a failure of navigation or acquisition, by its reason
AcquisitionFailures ==
    {"InvalidSession", "MarketingShell", "LoginRedirect", "NoTargetReachable",
     "DownloadTimeout", "AcquisitionExhausted"}

\* C11: a run that has ended in a failure of navigation or acquisition (login
\* redirect, no target reachable, download timeout after an activation, all
\* tiers exhausted) has written a diagnostics snapshot with save_debug.
C11_FailureEmitsDiagnostics ==
    (pc = "done" /\ outcome \in AcquisitionFailures) => debug # {}

\* C12: a run that wrote a capture file, from the download, the sniffer
\* buffer or the scraped table, has written no diagnostics.
C12_DiagnosticsOnlyOnFailure ==
    hist.written # <<>> => debug = {}

\* C13: in both session modes the response sniffer is registered on the page
\* from before the first navigation until the browser is closed.
C13_SnifferInBothModes ==
    browser = "open" => sniffing

\* C14: when go_to_host_finance ran out of targets without detecting a login
\* redirect, the run ends with a target-not-reached reason, never with the
\* reason of an invalid session.
C14_NoTargetIsDistinct ==
    (pc = "done" /\ hist.navExc = "no-target") =>
        outcome \in {"NoTargetReachable", "MarketingShell"}

\* C15: when TURO_START_URL is set, the first target the navigator visits is
\* that URL.
C15_StartUrlFirst ==
    (startUrl = "set" /\ hist.firstNav # "none") =>
        hist.firstNav = BusinessEarningsUrl(startUrl)

\* the navigator has just handled one target: page' is where it landed
NavStepped == pc = "nav" /\ ti' # ti

\* C16: every page a navigation lands on is a login redirect, a marketing
\* shell or an authenticated target: a login redirect ends the navigation as
\* a failure, a marketing shell does not, and a page that is neither is
\* accepted and ends the navigation loop.
C16_ClassificationTotal ==
    [][(NavStepped /\ page'.loaded) =>
          IF IsLoginRedirect(page'.url)
          THEN pc' = "navfailed" /\ exc' = "login-redirect"
          ELSE IF looks_like_marketing_shell(page')
          THEN pc' # "acquire" /\ exc' # "login-redirect"
          ELSE pc' = "acquire"]_vars

\* C17: targets are navigated in their configured order; a target that shows
\* no finance landmark and at least 3 marketing links, or whose handling
\* raises a non-login error, does not fail the run when a target is left:
\* the next target in order is navigated.
C17_MarketingShellSkipped ==
    [][NavStepped =>
          /\ (pc' = "nav" => ti' = ti + 1)
          /\ ((/\ ti < NumTargets
               /\ \/ ~page'.loaded
                  \/ /\ ~IsLoginRedirect(page'.url)
                     /\ ~page'.landmark
                     /\ page'.mhits >= 3)
                => /\ pc' = "nav"
                   /\ ti' = ti + 1
                   /\ exc' = "none"
                   /\ outcome' = "running")]_vars

C17_Witness ==
    /\ pc = "nav"
    /\ ti = 3
    /\ page.loaded
    /\ page.url = "plain"
    /\ ~page.landmark
    /\ page.mhits >= 3
    /\ page.fintext
    /\ outcome = "running"

\* C18: the transform step is started at most once, only after the browser
\* was closed on a run that wrote its capture file; a run that has ended
\* started it if and only if a capture file was written; and a non-zero exit
\* of the step makes the run end in failure.
C18_EtlIffCapture ==
    /\ hist.etlRuns <= 1
    /\ (hist.etlRuns = 1 => Len(hist.written) = 1 /\ exc = "none" /\ browser = "closed")
    /\ (pc = "done" => (hist.etlRuns = 1 <=> hist.written # <<>>))
    /\ (outcome \in AcquisitionFailures => hist.etlRuns = 0)
    /\ (hist.etlExit = "nonzero" => outcome = "EtlFailed")
    /\ (outcome = "ok" => hist.etlExit = "zero")

C18_Witness ==
    /\ pc = "done"
    /\ hist.etlRuns = 1
    /\ hist.etlExit = "nonzero"
    /\ hist.written = <<"scraped">>
    /\ outcome = "EtlFailed"

\* C20: a run that ended without a capture after an activation on the
\* top-level page or in a frame met no download ends with the
\* download-timeout reason, and a run ends with the no-export-control reason
\* only when no control was ever activated.
C20_TimeoutVsNoControl ==
    pc = "done" =>
        /\ ((hist.timeouts \cap {"top", "frame"} # {} /\ hist.written = <<>>)
               => outcome = "DownloadTimeout")
        /\ (outcome = "AcquisitionExhausted" => hist.clicks = 0)

\* C19: no partial file is left in the export directory: whenever no write
\* is under way every file there holds the whole content the run assembled,
\* and a run that failed in acquisition leaves no file at all.
C19_NoPartialFile ==
    /\ (pc # "writing" =>
           \A n \in Existing : files[n].data = caps[1].data)
    /\ ((pc = "done" /\ outcome \notin {"ok", "EtlFailed"}) => Existing = {})

\* C21: on a scope whose only control is a visible element matched by one of
\* the attribute heuristics (data-testid or aria-label containing csv/export,
\* an anchor whose href ends in .csv) and by no name synonym, the cascade
\* finds that element and clicks it.
C21_EachCssSelectorProbed ==
    (/\ scope.kind = "top"
     /\ scope.cfg.attr \in {"testid", "aria", "href_end"}
     /\ scope.cfg.named = "none"
     /\ scope.cfg.export = "none" /\ scope.cfg.menu = "none"
     /\ scope.cfg.kebab = "none" /\ scope.cfg.kmenu = "none")
        => res.activated /\ res.clicks = <<"attr">>

\* the clicks that are expected to raise a download
CsvClicks == {"named", "attr", "csv_menuitem", "csv_text"}

\* C22: on a scope whose only export route is a visible Export button that
\* opens a menu with a CSV item, the cascade returns true only after it
\* clicked Export and then the CSV item: its last click is on a CSV control.
C22_ExportMenuClicksCsvItem ==
    (/\ scope.kind = "top"
     /\ scope.cfg.export = "ok"
     /\ scope.cfg.menu # "none"
     /\ scope.cfg.named = "none"
     /\ scope.cfg.attr = "none"
     /\ scope.cfg.kebab = "none")
        => /\ res.activated
           /\ Len(res.clicks) = 2
           /\ res.clicks[1] = "export_button"
           /\ res.clicks[2] \in CsvClicks

\* C26: the business-earnings page is tried before the diagnostics and
\* before either fallback; when the navigation to it succeeded, the
\* diagnostics snapshot and the table transcoder read the business-earnings
\* page, not the page the navigator accepted.
C26_FallbacksReadBusinessPage ==
    /\ (hist.diagSite # "none" \/ hist.sniffChecks > 0 \/ hist.scrapeSite # "none"
          => hist.bizNav # "none")
    /\ (hist.bizNav = "ok" =>
          /\ hist.diagSite \in {"none", "business"}
          /\ hist.scrapeSite \in {"none", "business"})
    /\ (hist.bizNav = "raised" =>
          /\ hist.diagSite \in {"none", "host"}
          /\ hist.scrapeSite \in {"none", "host"})

C26_Witness ==
    /\ pc = "done"
    /\ hist.bizNav = "ok"
    /\ hist.diagSite = "business"
    /\ hist.scrapeSite = "business"
    /\ hist.written = <<"scraped">>

\* C27: a run that has left the browser phase, on success or on any failure,
\* has closed the browser, and the transform step is started only after the
\* browser was closed.
C27_BrowserAlwaysClosed ==
    /\ (pc \in {"etl", "done"} => browser = "closed")
    /\ (outcome # "running" => browser = "closed")
    /\ (hist.etlRuns > 0 => browser = "closed")

C27_Witness ==
    /\ pc = "done"
    /\ outcome = "DownloadTimeout"
    /\ browser = "closed"
    /\ hist.etlRuns = 0

\* C28: when the buffer holds an empty body at the sniff fallback, no sniffed
\* file is written and the table transcoder runs; a sniffed file exists only
\* for a non-empty buffer and holds exactly the buffer's bytes.
C28_EmptyBodyIsNoCapture ==
    /\ (hist.sniffChecks > 0 /\ buf = "" =>
          /\ "sniffed" \notin Range(hist.written)
          /\ \A st \in Stamps : ~files[FileName("sniffed", st)].exists
          /\ pc \in {"scrape", "closing", "etl", "done"}
          /\ (pc # "scrape" => hist.tableRuns = 1))
    /\ \A st \in Stamps :
          files[FileName("sniffed", st)].exists =>
              /\ buf \notin {"None", ""}
              /\ files[FileName("sniffed", st)].data = <<<<buf>>>>

C28_Witness ==
    /\ pc = "done"
    /\ buf = ""
    /\ hist.sniffChecks = 1
    /\ hist.tableRuns = 1
    /\ Existing \subseteq {FileName("scraped", st) : st \in Stamps}

\* C23: the buffer is one slot.  After the callback ran for a readable
\* response whose URL ends in .csv or whose type is text/csv the slot holds
\* that response's body; after it ran for a response that has neither, or
\* whose body cannot be read, the slot is as it was; nothing else writes it.
C23_SingleSlotLastWins ==
    IF hist.lastResp = NoResp
    THEN buf = "None"
    ELSE LET r == hist.lastResp
         IN  /\ (r.body # "raise" /\ (r.url = "ends_csv" \/ r.ct = "text/csv")
                    => buf = r.body)
             /\ (r.body = "raise" \/ (r.url = "no_csv" /\ r.ct = "other")
                    => buf = hist.prevBuf)

C23_Witness ==
    /\ hist.lastResp # NoResp
    /\ hist.prevBuf = "b1"
    /\ hist.lastResp.body = "b2"
    /\ buf = "b2"
    /\ pc = "done"

\* C24: a response whose URL holds .csv only in the middle and whose content
\* type is not text/csv is not buffered.
C24_SuffixOrTypeOnly ==
    (/\ hist.lastResp # NoResp
     /\ hist.lastResp.url = "mid_csv"
     /\ hist.lastResp.ct = "other")
        => buf = hist.prevBuf

EffectiveEndAsStated(t, now) ==
    IF t.end # NaT THEN t.end
    ELSE IF t.start # NaT /\ now - t.start > ThirtyDays * TicksPerDay THEN now
    ELSE NaT

\* C25: the transform step aggregates exactly the trips that have an
\* effective end (recorded end; else now if started more than 30 days ago),
\* each in the month of its effective end.
C25_EffectiveEndRule ==
    etl.transformed =>
        LET kept == SelectSeq(etl.raw,
                        LAMBDA t : EffectiveEndAsStated(t, etl.now) # NaT)
        IN  /\ Len(etl.per_trip) = Len(kept)
            /\ \A i \in 1..Len(kept) :
                  /\ i <= Len(etl.per_trip)
                  /\ etl.per_trip[i].vehicle = kept[i].vehicle
                  /\ etl.per_trip[i].trip_net = kept[i].total_earnings
                  /\ etl.per_trip[i].month =
                        MonthOf(EffectiveEndAsStated(kept[i], etl.now))

\* the rows of a table, as a set
RowSet(rows) == {rows[i] : i \in 1..Len(rows)}

\* C30: after load, however often it ran and whatever the database held
\* before, the fact tables hold exactly the rows given, each rollup has one
\* row per group of the fact table with the group's sum, and one more load
\* of the same inputs leaves the database as it is.
C30_LoadReplaces ==
    etl.loads >= 1 =>
        /\ db.fact_line_items = etl.long
        /\ db.fact_trip_net = etl.per_trip
        /\ {[month |-> r.month, vehicle |-> r.vehicle] : r \in db.rpt_month_vehicle_total}
              = {[month |-> r.month, vehicle |-> r.vehicle] : r \in RowSet(etl.per_trip)}
        /\ \A r \in db.rpt_month_vehicle_total :
              /\ r.net_total =
                    SumField(SelectSeq(etl.per_trip,
                        LAMBDA x : x.month = r.month /\ x.vehicle = r.vehicle), "trip_net")
              /\ \A q \in db.rpt_month_vehicle_total :
                    (q.month = r.month /\ q.vehicle = r.vehicle) => q = r
        /\ {[month |-> r.month, vehicle |-> r.vehicle, category |-> r.category] :
                r \in db.rpt_month_vehicle_category}
              = {[month |-> r.month, vehicle |-> r.vehicle, category |-> r.category] :
                    r \in RowSet(etl.long)}
        /\ \A r \in db.rpt_month_vehicle_category :
              r.amount =
                  SumField(SelectSeq(etl.long,
                      LAMBDA x : /\ x.month = r.month /\ x.vehicle = r.vehicle
                                 /\ x.category = r.category), "amount")
        /\ load(db, etl.long, etl.per_trip) = db

C30_Witness ==
    /\ etl.loads = 2
    /\ Len(etl.per_trip) = 2
    /\ Cardinality(db.rpt_month_vehicle_total) = 1
    /\ \E r \in db.rpt_month_vehicle_total : r.net_total = 3
    /\ db.fact_trip_net = etl.per_trip
====
